---- MODULE Spec2Model ----
(***************************************************************************)
(* Model of the image overlay tool (src/program.py): the layer cache and   *)
(* compositing pipeline of ImageOverlayApp.update_preview, the export      *)
(* operations, and the Tk timer queue driven by the debounce decorator.    *)
(*                                                                         *)
(* Rasters are symbolic: a decoded image is identified by the file it was  *)
(* opened from together with its size and mode, a resized raster by its    *)
(* source file and target size, a composite by the two rasters merged and  *)
(* the paste position.  All size and position arithmetic is the code's.    *)
(***************************************************************************)
EXTENDS Integers, Sequences, FiniteSets, TLC

\* ------------------------------------------------------------------ bounds
\* Deepest nesting of update_preview calls entered from a message box's
\* event loop that the model follows.
MaxDepth == 2
\* Most callbacks the model lets sit in Tk's timer queue at once.
MaxTimers == 3
\* Milliseconds of wall-clock time one Tick step lets pass.
TickMs == 50

\* ------------------------------------------------------- program constants
DebounceMs == 100
StartupMs == 100
DefaultCanvas == 400
DefaultScale == 100
DefaultOpacity == 30

\* ------------------------------------------------------------- file system
None == [kind |-> "None"]

\* A decoded raster: the file it was read from, its size and mode, and the
\* (uniform) value of its alpha channel when the mode has one.
Raster(file, w, h, mode, alpha) ==
    [kind |-> "img", file |-> file, width |-> w, height |-> h, mode |-> mode,
     alpha |-> alpha]

\* The image files on disk; any other path cannot be opened.
DiskImage(path) ==
    CASE path = "a.png" -> Raster(path, 800, 600, "RGB", 255)
      [] path = "b.png" -> Raster(path, 600, 800, "RGB", 255)
      [] path = "g.png" -> Raster(path, 200, 200, "RGB", 255)
      [] path = "h.png" -> Raster(path, 300, 150, "RGBA", 255)
      [] path = "r.png" -> Raster(path, 400, 400, "RGB", 255)
      [] path = "s.png" -> Raster(path, 800, 400, "RGBA", 200)
      [] path = "w.png" -> Raster(path, 800, 1, "RGB", 255)
      [] OTHER -> None

\* Image.open(path): the decoded raster, or None when the call raises.
Image_open(path) == DiskImage(path)

\* ------------------------------------------------------------- arithmetic
Min(a, b) == IF a <= b THEN a ELSE b

\* floor(log2(n)) for n >= 1.
RECURSIVE Log2(_)
Log2(n) == IF n < 2 THEN 0 ELSE 1 + Log2(n \div 2)

\* How often n must be doubled to reach d.
RECURSIVE ShiftsToReach(_, _)
ShiftsToReach(n, d) == IF n >= d THEN 0 ELSE 1 + ShiftsToReach(2 * n, d)

\* The binary exponent of the float n / d: 2^j <= n/d < 2^(j+1).
Exponent(n, d) == IF n >= d THEN Log2(n \div d) ELSE -ShiftsToReach(n, d)

\* (r * 2^e) mod d; once the remainder is 0 it stays 0.
RECURSIVE Pow2Mod(_, _, _)
Pow2Mod(r, e, d) ==
    IF e = 0 \/ r = 0 THEN r ELSE Pow2Mod((2 * r) % d, e - 1, d)

\* The float product a * (n / d) truncated, when its exact value is the
\* integer I >= 1: the division left remainder r at exponent j (r = 0 or
\* 2r >= d: the quotient was exact or rounded up), and the product rounds
\* back to I unless a * r / (d * 2^(52 - j)) exceeds half the gap between I
\* and the double below it.
RoundedProduct(a, d, I, j, r) ==
    IF r = 0 \/ 2 * r >= d
       \/ a * r * (IF I = 2 ^ Log2(I) THEN 4 ELSE 2) <= d * (2 ^ (Log2(I) - j))
    THEN I ELSE I - 1

\* int(a * (n / d)) as Python computes it, for integers a >= 0, n >= 0 and
\* d > 0: n / d is the double nearest to the quotient, the product is rounded
\* to a double again and int() truncates.  When d does not divide a * n the
\* result is the floor of the exact value.  When it does, the exact value is
\* the integer I and the float product is I - a * r / (d * 2^(52 - j)) for
\* the remainder r the division left (when the quotient was rounded down):
\* it rounds back to I unless that error exceeds half the gap between I and
\* the double below it, and then int() yields I - 1.
IntOfProduct(a, n, d) ==
    IF (a * n) % d # 0 \/ a * n < d THEN (a * n) \div d
    ELSE RoundedProduct(a, d, (a * n) \div d, Exponent(n, d),
                        Pow2Mod(n % d, 52 - Exponent(n, d), d))

\* int(v * (n / d)) for a signed v: int() truncates toward zero.
IntScaled(v, n, d) ==
    IF v >= 0 THEN IntOfProduct(v, n, d) ELSE -IntOfProduct(-v, n, d)

\* int(v * min(cw / w, ch / h)): v scaled by the ratio that fits a w x h
\* image into the canvas cs, truncated.
ScaleByRatio(v, cs, w, h) ==
    IntOfProduct(v, IF cs[1] * h <= cs[2] * w THEN cs[1] ELSE cs[2],
                    IF cs[1] * h <= cs[2] * w THEN w ELSE h)

\* img.resize((w, h), LANCZOS): raises (None) when a side is below 1.
Resize(img, w, h) ==
    IF w < 1 \/ h < 1 THEN None
    ELSE [kind |-> "resized", src |-> img.file, width |-> w, height |-> h, mode |-> img.mode]

\* ------------------------------------------------------------- layer cache
NoPath == "<None>"

\* self.cache as __init__ builds it.
InitCache ==
    [base_img |-> None, graphic_img |-> None, reference_img |-> None,
     base_path |-> NoPath, graphic_path |-> NoPath, reference_path |-> NoPath,
     resized_base |-> None, resized_graphic |-> None, resized_reference |-> None,
     last_canvas_size |-> <<0, 0>>,
     last_scale |-> <<DefaultScale, DefaultScale>>,
     last_ref_scale |-> <<DefaultScale, DefaultScale>>,
     last_opacity |-> DefaultOpacity]

\* LoadLayer with the path stored before the image is opened.
LoadLayerPathFirst(c, imgKey, pathKey, path) ==
    IF c[pathKey] # path \/ c[imgKey] = None
    THEN LET img == Image_open(path) IN
         IF img = None
         THEN [cache |-> [c EXCEPT ![pathKey] = path], ok |-> FALSE, did |-> FALSE]
         ELSE [cache |-> [c EXCEPT ![imgKey] = img, ![pathKey] = path],
               ok |-> TRUE, did |-> TRUE]
    ELSE [cache |-> c, ok |-> TRUE, did |-> FALSE]

\* "Load or get from cache": the image is opened when the cached path differs
\* or nothing is cached; the raster is stored first, then the path.  A raising
\* Image.open leaves both entries as they were.
LoadLayer(c, imgKey, pathKey, path) ==
    IF c[pathKey] # path \/ c[imgKey] = None
    THEN LET img == Image_open(path) IN
         IF img = None
         THEN [cache |-> c, ok |-> FALSE, did |-> FALSE]
         ELSE [cache |-> [c EXCEPT ![imgKey] = img, ![pathKey] = path],
               ok |-> TRUE, did |-> TRUE]
    ELSE [cache |-> c, ok |-> TRUE, did |-> FALSE]

\* ResizedBaseStale without the cache test: the base is resized every pass.
ResizedBaseAlwaysStale(c, cs) == TRUE

\* "Only resize base image if canvas size changed".
ResizedBaseStale(c, cs) == c.last_canvas_size # cs \/ c.resized_base = None

\* ResizeBase with the canvas size stored before the resize is attempted.
ResizeBaseKeyFirst(c, cs) ==
    IF ResizedBaseStale(c, cs)
    THEN LET img == c.base_img
             new_width == ScaleByRatio(img.width, cs, img.width, img.height)
             new_height == ScaleByRatio(img.height, cs, img.width, img.height)
             out == Resize(img, new_width, new_height)
         IN IF out = None
            THEN [cache |-> [c EXCEPT !.last_canvas_size = cs], ok |-> FALSE,
                  did |-> FALSE]
            ELSE [cache |-> [c EXCEPT !.resized_base = out, !.last_canvas_size = cs],
                  ok |-> TRUE, did |-> TRUE]
    ELSE [cache |-> c, ok |-> TRUE, did |-> FALSE]

ResizeBase(c, cs) ==
    IF ResizedBaseStale(c, cs)
    THEN LET img == c.base_img
             new_width == ScaleByRatio(img.width, cs, img.width, img.height)
             new_height == ScaleByRatio(img.height, cs, img.width, img.height)
             out == Resize(img, new_width, new_height)
         IN IF out = None
            THEN [cache |-> c, ok |-> FALSE, did |-> FALSE]
            ELSE [cache |-> [c EXCEPT !.resized_base = out, !.last_canvas_size = cs],
                  ok |-> TRUE, did |-> TRUE]
    ELSE [cache |-> c, ok |-> TRUE, did |-> FALSE]

\* "Only resize graphic if scale changed".
ResizedGraphicStale(c, scale) == c.last_scale # scale \/ c.resized_graphic = None

\* ResizeGraphic with scale X applied to both axes.
ResizeGraphicUniform(c, cs, scale) ==
    IF ResizedGraphicStale(c, scale)
    THEN LET base == c.base_img
             img == c.graphic_img
             w1 == ScaleByRatio(img.width, cs, base.width, base.height)
             h1 == ScaleByRatio(img.height, cs, base.width, base.height)
             out == Resize(img, IntOfProduct(w1, scale[1], 100),
                           IntOfProduct(h1, scale[1], 100))
         IN IF out = None
            THEN [cache |-> c, ok |-> FALSE, did |-> FALSE]
            ELSE [cache |-> [c EXCEPT !.resized_graphic = out, !.last_scale = scale],
                  ok |-> TRUE, did |-> TRUE]
    ELSE [cache |-> c, ok |-> TRUE, did |-> FALSE]

\* The graphic in base-ratio pixels, stretched by scale X and scale Y.
ResizeGraphic(c, cs, scale) ==
    IF ResizedGraphicStale(c, scale)
    THEN LET base == c.base_img
             img == c.graphic_img
             w1 == ScaleByRatio(img.width, cs, base.width, base.height)
             h1 == ScaleByRatio(img.height, cs, base.width, base.height)
             graphic_width == IntOfProduct(w1, scale[1], 100)
             graphic_height == IntOfProduct(h1, scale[2], 100)
             out == Resize(img, graphic_width, graphic_height)
         IN IF out = None
            THEN [cache |-> c, ok |-> FALSE, did |-> FALSE]
            ELSE [cache |-> [c EXCEPT !.resized_graphic = out, !.last_scale = scale],
                  ok |-> TRUE, did |-> TRUE]
    ELSE [cache |-> c, ok |-> TRUE, did |-> FALSE]

\* The offset reprojected into resized-base pixels:
\* int(coord * (resized_side / base_side)).
Position(coord, resized_side, base_side) ==
    IntScaled(coord, resized_side, base_side)

\* Paste with the graphic's corner, not its centre, put on the offset point.
PasteAtCorner(c, x_coord, y_coord) ==
    LET resized_base == c.resized_base
        graphic_resized == c.resized_graphic
        x_pos == Position(x_coord, resized_base.width, c.base_img.width)
        y_pos == Position(y_coord, resized_base.height, c.base_img.height)
        paste_x == (resized_base.width \div 2) + x_pos
        paste_y == (resized_base.height \div 2) + y_pos
    IN [kind |-> "composite", base |-> resized_base, graphic |-> graphic_resized,
        at |-> <<paste_x, paste_y>>, masked |-> (graphic_resized.mode = "RGBA"),
        width |-> resized_base.width, height |-> resized_base.height,
        mode |-> resized_base.mode]

\* Paste with the cached resized reference blended into the composite buffer.
PasteWithReference(c, x_coord, y_coord) ==
    LET resized_base == c.resized_base
        graphic_resized == c.resized_graphic
        x_pos == Position(x_coord, resized_base.width, c.base_img.width)
        y_pos == Position(y_coord, resized_base.height, c.base_img.height)
        paste_x == (resized_base.width \div 2) + x_pos - (graphic_resized.width \div 2)
        paste_y == (resized_base.height \div 2) + y_pos - (graphic_resized.height \div 2)
    IN [kind |-> "composite", base |-> resized_base, graphic |-> graphic_resized,
        at |-> <<paste_x, paste_y>>, masked |-> (graphic_resized.mode = "RGBA"),
        width |-> resized_base.width, height |-> resized_base.height,
        mode |-> resized_base.mode, overlay |-> c.resized_reference]

\* Paste with the top-left corner clamped so that the graphic stays inside
\* the buffer.
PasteClamped(c, x_coord, y_coord) ==
    LET resized_base == c.resized_base
        graphic_resized == c.resized_graphic
        x_pos == Position(x_coord, resized_base.width, c.base_img.width)
        y_pos == Position(y_coord, resized_base.height, c.base_img.height)
        paste_x == (resized_base.width \div 2) + x_pos - (graphic_resized.width \div 2)
        paste_y == (resized_base.height \div 2) + y_pos - (graphic_resized.height \div 2)
        Clamp(v, lo, hi) == IF v < lo \/ hi < lo THEN lo ELSE IF v > hi THEN hi ELSE v
    IN [kind |-> "composite", base |-> resized_base, graphic |-> graphic_resized,
        at |-> <<Clamp(paste_x, 0, resized_base.width - graphic_resized.width),
                 Clamp(paste_y, 0, resized_base.height - graphic_resized.height)>>,
        masked |-> (graphic_resized.mode = "RGBA"),
        width |-> resized_base.width, height |-> resized_base.height,
        mode |-> resized_base.mode]

\* composite = resized_base.copy() with the resized graphic pasted so that it
\* is centred on the reprojected offset point.
Paste(c, x_coord, y_coord) ==
    LET resized_base == c.resized_base
        graphic_resized == c.resized_graphic
        x_pos == Position(x_coord, resized_base.width, c.base_img.width)
        y_pos == Position(y_coord, resized_base.height, c.base_img.height)
        center_x == resized_base.width \div 2
        center_y == resized_base.height \div 2
        paste_x == center_x + x_pos - (graphic_resized.width \div 2)
        paste_y == center_y + y_pos - (graphic_resized.height \div 2)
    IN [kind |-> "composite", base |-> resized_base, graphic |-> graphic_resized,
        at |-> <<paste_x, paste_y>>, masked |-> (graphic_resized.mode = "RGBA"),
        width |-> resized_base.width, height |-> resized_base.height,
        mode |-> resized_base.mode]

\* AfterPaste with the graphic pasted into the cached resized base itself.
AfterPasteInPlace(c, x_coord, y_coord) ==
    [c EXCEPT !.resized_base = Paste(c, x_coord, y_coord)]

\* The cache once the graphic is pasted: the paste goes into the copy made
\* by resized_base.copy(), the cached rasters are only read.
AfterPaste(c, x_coord, y_coord) == c

Ops(name, did) == IF did THEN {name} ELSE {}

\* The try block that builds the composite, for parameters p, cache c and
\* canvas size cs.  ok is FALSE when the block raised; the cache then keeps
\* what the statements before the raise stored.  ops names the decodes and
\* resizes performed.
CompositeSection(p, c, cs) ==
    LET s1 == LoadLayer(c, "base_img", "base_path", p.base_path)
        s2 == LoadLayer(s1.cache, "graphic_img", "graphic_path", p.graphic_path)
        s3 == ResizeBase(s2.cache, cs)
        s4 == ResizeGraphic(s3.cache, cs, <<p.scale_x, p.scale_y>>)
        o1 == Ops("decode_base", s1.did)
        o2 == o1 \cup Ops("decode_graphic", s2.did)
        o3 == o2 \cup Ops("resize_base", s3.did)
        o4 == o3 \cup Ops("resize_graphic", s4.did)
    IN IF ~s1.ok THEN [cache |-> s1.cache, ok |-> FALSE, ops |-> o1, composite |-> None]
       ELSE IF ~s2.ok THEN [cache |-> s2.cache, ok |-> FALSE, ops |-> o2, composite |-> None]
       ELSE IF ~s3.ok THEN [cache |-> s3.cache, ok |-> FALSE, ops |-> o3, composite |-> None]
       ELSE IF ~s4.ok THEN [cache |-> s4.cache, ok |-> FALSE, ops |-> o4, composite |-> None]
       ELSE [cache |-> AfterPaste(s4.cache, p.x_coord, p.y_coord), ok |-> TRUE,
             ops |-> o4, composite |-> Paste(s4.cache, p.x_coord, p.y_coord)]

\* The alpha channel the opacity step starts from: the raster's own, or the
\* opaque one convert("RGBA") adds.
SourceAlpha(img) == IF img.mode = "RGBA" THEN img.alpha ELSE 255

\* The opacity step with every pixel given the alpha of an opaque one.
OpacityOfOpaque(x, opacity_pct) == IntOfProduct(255, opacity_pct, 100)

\* bands[3].point(lambda x: int(x * opacity)) with opacity = pct / 100.0.
Opacity(x, opacity_pct) == IntOfProduct(x, opacity_pct, 100)

\* "Only resize reference if scale or opacity changed".
ResizedReferenceStale(c, ref_scale, opacity) ==
    \/ c.last_ref_scale # ref_scale
    \/ c.last_opacity # opacity
    \/ c.resized_reference = None

\* The resized reference: canvas ratio, user scale, RGBA conversion, and each
\* alpha value x replaced by int(x * opacity / 100).
ResizeReference(c, cs, ref_scale, opacity) ==
    IF ResizedReferenceStale(c, ref_scale, opacity)
    THEN LET img == c.reference_img
             base_width == ScaleByRatio(img.width, cs, img.width, img.height)
             base_height == ScaleByRatio(img.height, cs, img.width, img.height)
             new_width == IntOfProduct(base_width, ref_scale[1], 100)
             new_height == IntOfProduct(base_height, ref_scale[2], 100)
             out == Resize(img, new_width, new_height)
         IN IF out = None
            THEN [cache |-> c, ok |-> FALSE, did |-> FALSE]
            ELSE [cache |-> [c EXCEPT
                               !.resized_reference =
                                   [kind |-> "reference", src |-> out.src,
                                    width |-> out.width, height |-> out.height,
                                    mode |-> "RGBA", opacity |-> opacity,
                                    alpha |-> Opacity(SourceAlpha(img), opacity)],
                               !.last_ref_scale = ref_scale,
                               !.last_opacity = opacity],
                  ok |-> TRUE, did |-> TRUE]
    ELSE [cache |-> c, ok |-> TRUE, did |-> FALSE]

\* "Handle reference image": the second try block.  drawn is the canvas item
\* created (the raster and its position), None when nothing is drawn.
ReferenceSection(p, c, cs) ==
    IF p.reference_path # "" /\ p.show_reference
    THEN LET s1 == LoadLayer(c, "reference_img", "reference_path", p.reference_path)
             s2 == ResizeReference(s1.cache, cs,
                                   <<p.reference_scale_x, p.reference_scale_y>>,
                                   p.reference_opacity)
         IN IF ~s1.ok THEN [cache |-> s1.cache, ok |-> FALSE, drawn |-> None]
            ELSE IF ~s2.ok THEN [cache |-> s2.cache, ok |-> FALSE, drawn |-> None]
            ELSE [cache |-> s2.cache, ok |-> TRUE,
                  drawn |-> [kind |-> "item", image |-> s2.cache.resized_reference,
                             at |-> <<(cs[1] \div 2) + p.reference_x,
                                      (cs[2] \div 2) + p.reference_y>>]]
    ELSE [cache |-> c, ok |-> TRUE, drawn |-> None]

\* ------------------------------------------------------------------ export
\* ExportBitmap with the background toggle ignored.
ExportBitmapUnpadded(composite, apply_background) == composite

\* The bitmap export_image and save_as serialize: the composite itself, or
\* the composite pasted on a gray background with 10% padding per side.
ExportBitmap(composite, apply_background) ==
    IF apply_background
    THEN LET padding_x == IntOfProduct(composite.width, 1, 10)
             padding_y == IntOfProduct(composite.height, 1, 10)
         IN [kind |-> "padded", fill |-> "#b4b4b4",
             width |-> composite.width + (padding_x * 2),
             height |-> composite.height + (padding_y * 2),
             inner |-> composite, at |-> <<padding_x, padding_y>>,
             masked |-> (composite.mode = "RGBA"), mode |-> "RGB"]
    ELSE composite

\* export_image and save_as without their guard.
GuardMissing(composite) == FALSE

\* "if not self.current_composite": nothing has been rendered.
NoComposite(composite) == composite = None

\* ------------------------------------------------------------------- state
VARIABLES
    params,             \* the tk variables of the parameter widgets
    canvas,             \* <<winfo_width, winfo_height>> of the preview canvas
    cache,              \* self.cache
    current_composite,  \* self.current_composite
    preview,            \* the items on the preview canvas
    after_queue,        \* Tk's pending root.after callbacks
    timer,              \* the debounce closure's timer id
    stack,              \* calls suspended in a message box or in the file dialog
    files,              \* what export_image and save_as have written
    message,            \* how the last export_image or save_as call ended
    last,               \* history: the render pass that ran since the last write
    pass_key,           \* history: the inputs of the most recent pass, if it succeeded
    made,               \* history: the inputs the cached resized graphic was made from
    kept,               \* history: the outcomes of the passes that have run since
                        \* the stored composite was assigned and left it in place
    burst,              \* history: the current burst of parameter writes (writes less
                        \* than the quiet window apart), the renders its timer
                        \* triggered, and whether the burst before it got none
    twin,               \* a second run given the same events, other reference parameters
    calc                \* one evaluation of the size, position or opacity
                        \* arithmetic on inputs of its own, and its result

vars == <<params, canvas, cache, current_composite, preview, after_queue,
          timer, stack, files, message, last, pass_key, made, kept, burst, twin, calc>>

\* Values the environment writes to each tk variable.
ParamValues ==
    [base_path |-> {"", "a.png", "b.png", "missing.png"},
     graphic_path |-> {"", "g.png", "h.png", "missing.png"},
     reference_path |-> {"", "r.png", "missing.png"},
     x_coord |-> {0, -150},
     y_coord |-> {0, 90},
     scale_x |-> {100, 200},
     scale_y |-> {100, 50},
     show_reference |-> BOOLEAN,
     reference_opacity |-> {30, 100},
     reference_x |-> {0, 25},
     reference_y |-> {0},
     reference_scale_x |-> {100, 50},
     reference_scale_y |-> {100},
     apply_background |-> BOOLEAN]

\* Sizes the window system gives the preview canvas.
CanvasSizes == {<<400, 400>>, <<600, 400>>}

InitParams ==
    [base_path |-> "", graphic_path |-> "", reference_path |-> "",
     x_coord |-> 0, y_coord |-> 0,
     scale_x |-> DefaultScale, scale_y |-> DefaultScale,
     show_reference |-> TRUE, reference_opacity |-> DefaultOpacity,
     reference_x |-> 0, reference_y |-> 0,
     reference_scale_x |-> DefaultScale, reference_scale_y |-> DefaultScale,
     apply_background |-> FALSE]

\* The parameters and canvas size a render pass builds the composite from.
Key(p, cs) ==
    [base_path |-> p.base_path, graphic_path |-> p.graphic_path,
     x_coord |-> p.x_coord, y_coord |-> p.y_coord,
     scale |-> <<p.scale_x, p.scale_y>>, cs |-> cs]

NoKey == [base_path |-> "", graphic_path |-> "", x_coord |-> 0, y_coord |-> 0,
          scale |-> <<0, 0>>, cs |-> <<0, 0>>]

NoLast == [status |-> "none", ops |-> {}, repeat |-> "no", rebased |-> FALSE,
           same |-> FALSE, overlap |-> FALSE]

NoCalc == [op |-> "none", args |-> <<>>, done |-> FALSE, out |-> <<>>]

\* The state __init__ leaves: the start-up render is scheduled, the canvas
\* is not yet mapped.
Constructed ==
    /\ params = InitParams
    /\ canvas = <<1, 1>>
    /\ cache = InitCache
    /\ current_composite = None
    /\ preview = [composite |-> None, reference |-> None]
    /\ after_queue = {[id |-> 0, ms |-> StartupMs, fn |-> "update_preview"]}
    /\ timer = -1
    /\ stack = <<>>
    /\ files = [export |-> None, save_as |-> None]
    /\ message = "none"
    /\ last = NoLast
    /\ pass_key = NoKey
    /\ made = [graphic |-> "", ratio |-> <<0, 1>>, scale |-> <<0, 0>>]
    /\ kept = {}
    /\ burst = [writes |-> 0, renders |-> 0, elapsed |-> DebounceMs,
                unrendered |-> FALSE]
    /\ twin = [params |-> InitParams, cache |-> InitCache,
               current_composite |-> None,
               files |-> [export |-> None, save_as |-> None]]

Init == Constructed /\ calc = NoCalc

\* ------------------------------------------------------------ timer queue
\* The debounce closure's timer still waits in Tk's queue.
DebouncePending == \E t \in after_queue : t.id = timer

\* debounced() without the cancel: the previous timer stays in the queue.
CancelNothing(q, tm) == q

\* root.after_cancel(timer): the queue without the previously scheduled call
\* (timer = -1 is the closure's initial None; a fired id matches nothing).
CancelPrevious(q, tm) == {t \in q : t.id # tm}

\* An id no callback in the queue carries (root.after never hands out the id
\* of a waiting callback).
FreshId(q) == CHOOSE i \in 1..(MaxTimers + 1) : \A t \in q : t.id # i

\* debounced() that cancels the previous timer and schedules nothing.
DebouncedCancelOnly ==
    /\ after_queue' = CancelPrevious(after_queue, timer)
    /\ timer' = timer

\* debounced(): cancel the previous timer, schedule call_function in 100 ms.
Debounced ==
    LET q == CancelPrevious(after_queue, timer)
        id == FreshId(q)
    IN /\ Cardinality(q) < MaxTimers
       /\ after_queue' = q \cup {[id |-> id, ms |-> DebounceMs, fn |-> "call_function"]}
       /\ timer' = id

\* ------------------------------------------------------------- render pass
\* BothPaths with the graphic path left out of the test.
BothPathsBaseOnly(p) == p.base_path # ""

\* "Check if we have both images for the composite".
BothPaths(p) == p.base_path # "" /\ p.graphic_path # ""

EffectiveCanvas(cv) ==
    IF cv[1] <= 1 \/ cv[2] <= 1 THEN <<DefaultCanvas, DefaultCanvas>> ELSE cv

\* min(cw / w, ch / h) as numerator and denominator.
BaseRatio(cs, img) ==
    IF cs[1] * img.height <= cs[2] * img.width THEN <<cs[1], img.width>>
    ELSE <<cs[2], img.height>>

SameRatio(a, b) == a[1] * b[2] = b[1] * a[2]

\* How the inputs of this pass compare with those of the pass before it.
Repeat(old, new) ==
    IF old.base_path = new.base_path /\ old.graphic_path = new.graphic_path
       /\ old.cs = new.cs /\ old.scale = new.scale
    THEN (IF old.x_coord = new.x_coord /\ old.y_coord = new.y_coord
          THEN "all" ELSE "inputs")
    ELSE "no"

\* The reference try block run on cache c for canvas size cs, by the call on
\* top of the stack rest; comp is the composite item already on the canvas.
ReferencePart(c, cs, comp, rest) ==
    LET rr == ReferenceSection(params, c, cs) IN
    /\ cache' = rr.cache
    /\ preview' = [composite |-> comp, reference |-> rr.drawn]
    /\ stack' = IF rr.ok THEN rest
                ELSE Append(rest, [pc |-> "reference_error", cs |-> cs])

\* StoreComposite with the stored composite dropped by a pass that does not
\* reach the assignment.
StoreCompositeOrClear(reached, composite, old) == IF reached THEN composite ELSE None

\* self.current_composite after a pass: assigned at the end of the composite
\* block, which a pass reaches only with both paths set and nothing raised.
StoreComposite(reached, composite, old) == IF reached THEN composite ELSE old

\* update_preview() up to its return or its first message box, with the
\* canvas widget reporting size cv.
UpdatePreview(cv) ==
    LET cs == EffectiveCanvas(cv)
        both == BothPaths(params)
        r == IF both THEN CompositeSection(params, cache, cs)
             ELSE [cache |-> cache, ok |-> TRUE, ops |-> {}, composite |-> None]
        key == Key(params, cs)
    IN /\ last' = [status |-> IF ~both THEN "empty" ELSE IF r.ok THEN "ok" ELSE "error",
                   ops |-> r.ops,
                   repeat |-> Repeat(pass_key, key),
                   rebased |-> (/\ pass_key # NoKey
                                /\ pass_key.base_path # key.base_path
                                /\ pass_key.cs = key.cs),
                   same |-> (r.composite = current_composite),
                   overlap |-> (\E i \in 1..Len(stack) : stack[i].pc # "save_dialog")]
       /\ pass_key' = IF both /\ r.ok THEN key ELSE NoKey
       /\ made' = IF "resize_graphic" \in r.ops
                  THEN [graphic |-> r.cache.graphic_img.file,
                        ratio |-> BaseRatio(cs, r.cache.base_img),
                        scale |-> key.scale]
                  ELSE made
       /\ kept' = IF (both /\ r.ok) \/ current_composite = None THEN {}
                  ELSE kept \cup {IF both THEN "error" ELSE "empty"}
       /\ current_composite' = StoreComposite(both /\ r.ok, r.composite, current_composite)
       /\ IF both /\ ~r.ok
          THEN /\ cache' = r.cache
               /\ preview' = [composite |-> None, reference |-> None]
               /\ stack' = Append(stack, [pc |-> "composite_error", cs |-> cs])
          ELSE ReferencePart(r.cache, cs, r.composite, stack)

\* ----------------------------------------------------------------- actions
\* The user changes a parameter widget: the variable is written and its
\* trace calls trigger_update_preview.  Widgets take no input while a
\* message box holds the grab.
WriteParam(name, v) ==
    /\ stack = <<>>
    /\ params' = [params EXCEPT ![name] = v]
    /\ Debounced
    /\ burst' = IF burst.elapsed < DebounceMs /\ burst.writes > 0
                THEN [burst EXCEPT !.writes = 2, !.elapsed = 0]
                ELSE [writes |-> 1, renders |-> 0, elapsed |-> 0,
                      unrendered |-> (burst.writes > 0 /\ burst.renders = 0)]
    /\ last' = NoLast
    /\ UNCHANGED <<canvas, cache, current_composite, preview, stack, files,
                   message, pass_key, made, kept>>

\* Wall-clock time passes: step milliseconds.
Tick(step) ==
    /\ \/ \E t \in after_queue : t.ms > 0
       \/ burst.elapsed < DebounceMs
    /\ after_queue' = {[t EXCEPT !.ms = IF t.ms > step THEN t.ms - step ELSE 0]
                         : t \in after_queue}
    /\ burst' = [burst EXCEPT !.elapsed = Min(DebounceMs, burst.elapsed + step)]
    /\ UNCHANGED <<params, canvas, cache, current_composite, preview, timer,
                   stack, files, message, last, pass_key, made, kept>>

\* The event loop (the main one or a message box's) runs a due callback:
\* the start-up update_preview or the debounced call_function.
TimerFire ==
    /\ Len(stack) < MaxDepth
    /\ \E t \in after_queue :
         /\ t.ms = 0
         /\ after_queue' = after_queue \ {t}
         /\ burst' = IF t.fn = "call_function"
                     THEN [burst EXCEPT !.renders = Min(2, burst.renders + 1)]
                     ELSE burst
    /\ UpdatePreview(canvas)
    /\ UNCHANGED <<params, canvas, timer, files, message>>

\* <Configure> on the preview canvas, now of size sz: on_canvas_resize.
CanvasResize(sz) ==
    /\ Len(stack) < MaxDepth
    /\ canvas' = sz
    /\ UpdatePreview(sz)
    /\ UNCHANGED <<params, after_queue, timer, files, message, burst>>

\* The user closes the message box on top: the suspended update_preview goes
\* on after its showerror call.
Dismiss ==
    /\ stack # <<>>
    /\ stack[Len(stack)].pc # "save_dialog"
    /\ LET top == stack[Len(stack)]
           rest == SubSeq(stack, 1, Len(stack) - 1)
       IN IF top.pc = "composite_error"
          THEN ReferencePart(cache, top.cs, preview.composite, rest)
          ELSE stack' = rest /\ UNCHANGED <<cache, preview>>
    /\ UNCHANGED <<params, canvas, current_composite, after_queue, timer, files,
                   message, last, pass_key, made, kept, burst>>

\* File > Save.
ExportImage ==
    /\ stack = <<>>
    /\ IF NoComposite(current_composite)
       THEN message' = "export_image: no image" /\ UNCHANGED files
       ELSE \E saved \in BOOLEAN :
              IF saved
              THEN /\ files' = [files EXCEPT !.export =
                                   ExportBitmap(current_composite, params.apply_background)]
                   /\ message' = "export_image: success"
              ELSE message' = "export_image: failed" /\ UNCHANGED files
    /\ UNCHANGED <<params, canvas, cache, current_composite, preview, after_queue,
                   timer, stack, last, pass_key, made, kept, burst>>

\* File > Save As..., up to its return after the error box or to the file
\* dialog: asksaveasfilename runs an event loop of its own, in which timers
\* and <Configure> are dispatched while save_as waits for the filepath.
SaveAs ==
    /\ stack = <<>>
    /\ IF NoComposite(current_composite)
       THEN message' = "save_as: no image" /\ UNCHANGED stack
       ELSE /\ stack' = <<[pc |-> "save_dialog", cs |-> <<0, 0>>]>>
            /\ UNCHANGED message
    /\ UNCHANGED <<params, canvas, cache, current_composite, preview, after_queue,
                   timer, files, last, pass_key, made, kept, burst>>

\* The file dialog returns filepath (empty when cancelled) and save_as goes
\* on: it builds the bitmap from the composite and the background toggle as
\* they are now and writes it.
SaveAsReturn ==
    /\ stack # <<>>
    /\ stack[Len(stack)].pc = "save_dialog"
    /\ stack' = SubSeq(stack, 1, Len(stack) - 1)
    /\ \E filepath \in {"", "out.png"}, saved \in BOOLEAN :
         IF filepath = "" THEN message' = "save_as: cancelled" /\ UNCHANGED files
         ELSE IF saved
         THEN /\ files' = [files EXCEPT !.save_as =
                              ExportBitmap(current_composite, params.apply_background)]
              /\ message' = "save_as: success"
         ELSE message' = "save_as: failed" /\ UNCHANGED files
    /\ UNCHANGED <<params, canvas, cache, current_composite, preview, after_queue,
                   timer, last, pass_key, made, kept, burst>>

\* ---------------------------------------------------------- specifications
\* The compositing pipeline: the base and graphic parameters are written and
\* render passes are entered from on_canvas_resize (the timer callbacks enter
\* the same update_preview; SpecTimers follows them through time).
CoreParams == {"base_path", "graphic_path", "x_coord", "scale_x"}

Next ==
    \/ \E name \in CoreParams : \E v \in ParamValues[name] :
         /\ WriteParam(name, v) /\ UNCHANGED <<twin, calc>>
    \/ \E sz \in CanvasSizes : CanvasResize(sz) /\ UNCHANGED <<twin, calc>>
    \/ Dismiss /\ UNCHANGED <<twin, calc>>

Spec == Init /\ [][Next]_vars

\* The three layers' decode caches.
LayerParams == {"base_path", "graphic_path", "reference_path"}

NextLayers ==
    \/ \E name \in LayerParams : \E v \in ParamValues[name] :
         /\ WriteParam(name, v) /\ UNCHANGED <<twin, calc>>
    \/ \E sz \in CanvasSizes : CanvasResize(sz) /\ UNCHANGED <<twin, calc>>
    \/ Dismiss /\ UNCHANGED <<twin, calc>>

SpecLayers == Init /\ [][NextLayers]_vars

\* The timer queue through time: debounced writes, the start-up timer and
\* canvas resizes, in the main event loop and in a message box's.
TimedValues ==
    [base_path |-> {"a.png"}, graphic_path |-> {"g.png", "missing.png"},
     x_coord |-> {0, -150}]

NextTimers ==
    \/ \E name \in DOMAIN TimedValues : \E v \in TimedValues[name] :
         /\ WriteParam(name, v) /\ UNCHANGED <<twin, calc>>
    \/ Tick(TickMs) /\ UNCHANGED <<twin, calc>>
    \/ TimerFire /\ UNCHANGED <<twin, calc>>
    \/ \E sz \in CanvasSizes : CanvasResize(sz) /\ UNCHANGED <<twin, calc>>
    \/ Dismiss /\ UNCHANGED <<twin, calc>>

SpecTimers == Init /\ [][NextTimers]_vars

\* The timer queue under the event loop's scheduling: root.mainloop() keeps
\* running, so time passes while a callback waits and a due callback is run.
\* Every file decodes, so no message box opens.
FairValues ==
    [base_path |-> {"a.png", "b.png"}, graphic_path |-> {"g.png", "h.png"},
     x_coord |-> {0, -150}]

FairWrite ==
    \E name \in DOMAIN FairValues : \E v \in FairValues[name] :
      /\ WriteParam(name, v) /\ UNCHANGED <<twin, calc>>

NextFair ==
    \/ FairWrite
    \/ Tick(TickMs) /\ UNCHANGED <<twin, calc>>
    \/ TimerFire /\ UNCHANGED <<twin, calc>>
    \/ \E sz \in CanvasSizes : CanvasResize(sz) /\ UNCHANGED <<twin, calc>>

\* TimerFire is enabled: a callback is due and the event loop can run it (the
\* render pass that follows is defined in every state).
TimerDue == Len(stack) < MaxDepth /\ \E t \in after_queue : t.ms = 0

\* Weak fairness of TimerFire, WF_vars(TimerFire), written with its enabling
\* condition TimerDue: a due callback does not wait forever.
FairTimerFire ==
    ([]<>~TimerDue) \/ ([]<><<TimerFire /\ UNCHANGED <<twin, calc>>>>_vars)

SpecFair ==
    /\ Init /\ [][NextFair]_vars
    /\ WF_vars(Tick(TickMs) /\ UNCHANGED <<twin, calc>>)
    /\ FairTimerFire

\* Export after and between render passes.
ExportValues ==
    [base_path |-> {"", "a.png", "missing.png"},
     graphic_path |-> {"", "g.png"},
     apply_background |-> BOOLEAN]

NextExport ==
    \/ \E name \in DOMAIN ExportValues : \E v \in ExportValues[name] :
         /\ WriteParam(name, v) /\ UNCHANGED <<twin, calc>>
    \/ \E sz \in CanvasSizes : CanvasResize(sz) /\ UNCHANGED <<twin, calc>>
    \/ Dismiss /\ UNCHANGED <<twin, calc>>
    \/ ExportImage /\ UNCHANGED <<twin, calc>>
    \/ SaveAs /\ UNCHANGED <<twin, calc>>
    \/ SaveAsReturn /\ UNCHANGED <<twin, calc>>

SpecExport == Init /\ [][NextExport]_vars

\* Two runs side by side.  The second run (twin) receives the events of the
\* first: the same writes of the base, graphic and background parameters, the
\* same canvas sizes, render passes and export calls with the same outcome of
\* the file write; the writes of a reference parameter carry a value of
\* their own in each run.  A reference message box of the second run is
\* closed at once.
TwinLowValues ==
    [base_path |-> {"a.png"}, graphic_path |-> {"g.png", "missing.png"}]

TwinRefValues ==
    [reference_path |-> {"r.png", "missing.png"}, show_reference |-> BOOLEAN,
     reference_opacity |-> {30, 100}]

TwinCanvasSizes == {<<400, 400>>}

\* update_preview() of the second run for canvas size cs, up to its return or
\* the message box of its composite try block.
TwinPass(t, cs) ==
    LET both == BothPaths(t.params)
        r == IF both THEN CompositeSection(t.params, t.cache, cs)
             ELSE [cache |-> t.cache, ok |-> TRUE, ops |-> {}, composite |-> None]
    IN [t EXCEPT
          !.current_composite = IF both /\ r.ok THEN r.composite ELSE @,
          !.cache = IF both /\ ~r.ok THEN r.cache
                    ELSE ReferenceSection(t.params, r.cache, cs).cache]

\* The second run's update_preview going on after its composite message box.
TwinResume(t, frame) ==
    IF frame.pc = "composite_error"
    THEN [t EXCEPT !.cache = ReferenceSection(t.params, t.cache, frame.cs).cache]
    ELSE t

\* export_image or save_as of the second run; saved is the outcome of the
\* file write.
TwinExport(t, file, saved) ==
    IF NoComposite(t.current_composite) \/ ~saved THEN t
    ELSE [t EXCEPT !.files[file] =
              ExportBitmap(t.current_composite, t.params.apply_background)]

NextTwin ==
    \/ \E name \in DOMAIN TwinLowValues : \E v \in TwinLowValues[name] :
         /\ WriteParam(name, v)
         /\ twin' = [twin EXCEPT !.params[name] = v]
         /\ UNCHANGED calc
    \/ \E name \in DOMAIN TwinRefValues : \E v, v2 \in TwinRefValues[name] :
         /\ WriteParam(name, v)
         /\ twin' = [twin EXCEPT !.params[name] = v2]
         /\ UNCHANGED calc
    \/ \E sz \in TwinCanvasSizes :
         /\ CanvasResize(sz) /\ twin' = TwinPass(twin, EffectiveCanvas(sz))
         /\ UNCHANGED calc
    \/ /\ Dismiss /\ twin' = TwinResume(twin, stack[Len(stack)])
       /\ UNCHANGED calc
    \/ /\ ExportImage
       /\ twin' = TwinExport(twin, "export", message' = "export_image: success")
       /\ UNCHANGED calc
    \/ SaveAs /\ UNCHANGED <<twin, calc>>
    \/ /\ SaveAsReturn
       /\ twin' = TwinExport(twin, "save_as", message' = "save_as: success")
       /\ UNCHANGED calc

SpecTwin == Init /\ [][NextTwin]_vars

\* The reference overlay: the reference parameters are written and render
\* passes are entered from on_canvas_resize.
ReferenceValues ==
    [reference_path |-> {"r.png", "s.png", "missing.png"},
     show_reference |-> BOOLEAN,
     reference_opacity |-> {30, 100},
     reference_scale_x |-> {100, 50},
     reference_x |-> {0, 25}]

NextReference ==
    \/ \E name \in DOMAIN ReferenceValues : \E v \in ReferenceValues[name] :
         /\ WriteParam(name, v) /\ UNCHANGED <<twin, calc>>
    \/ \E sz \in CanvasSizes : CanvasResize(sz) /\ UNCHANGED <<twin, calc>>
    \/ Dismiss /\ UNCHANGED <<twin, calc>>

SpecReference == Init /\ [][NextReference]_vars

\* The derived rasters and their keys: all three layers, scales and opacity
\* written, and w.png, an 800x1 image whose resize raises in every role (its
\* fitted height is int(1 * 0.5) = 0).
KeyValues ==
    [base_path |-> {"a.png", "w.png"}, graphic_path |-> {"g.png", "w.png"},
     reference_path |-> {"s.png", "w.png"},
     scale_x |-> {100, 200}, reference_opacity |-> {100}]

NextKeys ==
    \/ \E name \in DOMAIN KeyValues : \E v \in KeyValues[name] :
         /\ WriteParam(name, v) /\ UNCHANGED <<twin, calc>>
    \/ \E sz \in CanvasSizes : CanvasResize(sz) /\ UNCHANGED <<twin, calc>>
    \/ Dismiss /\ UNCHANGED <<twin, calc>>

SpecKeys == Init /\ [][NextKeys]_vars

\* The arithmetic of the pipeline on inputs of its own: the fit of a base
\* image into the canvas, the reprojection of the offsets, and the opacity
\* step of the reference, each applied once to inputs drawn at the start.
\* Image sides and canvas sides the fit is evaluated on.
MaxSide == 12
\* Largest offset magnitude of the dense range the reprojection is evaluated on.
MaxOffset == 3

FitInputs ==
    {<<w, h, cw, ch>> : w \in 1..MaxSide, h \in 1..MaxSide,
                        cw \in 2..(MaxSide + 4), ch \in 2..(MaxSide + 4)}
      \cup {<<800, 600, 400, 400>>, <<194, 100, 400, 400>>, <<600, 800, 600, 400>>}

Offsets == (-MaxOffset..MaxOffset) \cup {-1000, -150, 90, 1000}

PlaceInputs ==
    {<<x, y, sz[1], sz[2], sz[3], sz[4]>> :
        x \in Offsets, y \in Offsets,
        sz \in {<<800, 600, 400, 400>>, <<800, 600, 300, 300>>,
                 <<600, 800, 600, 400>>}}

OpacityInputs ==
    {<<"RGBA", a, p>> : a \in 0..255, p \in 0..100}
      \cup {<<"RGB", 255, p>> : p \in 0..100}

\* Offsets, scales and graphic files the paste is evaluated on: the ends of
\* the ranges the Spinboxes allow and values between them.
Scales == {10, 100, 500}

PasteInputs ==
    {<<x, y, sx, sy, g>> : x \in Offsets, y \in Offsets,
                            sx \in Scales, sy \in Scales, g \in {"g.png", "h.png"}}

InitCalc ==
    /\ Constructed
    /\ calc \in {[op |-> "fit", args |-> a, done |-> FALSE, out |-> <<>>] : a \in FitInputs}
          \cup {[op |-> "place", args |-> a, done |-> FALSE, out |-> <<>>] : a \in PlaceInputs}
          \cup {[op |-> "opacity", args |-> a, done |-> FALSE, out |-> <<>>] : a \in OpacityInputs}
          \cup {[op |-> "paste", args |-> a, done |-> FALSE, out |-> <<>>] : a \in PasteInputs}

\* A cache holding the decoded base image img and nothing derived.
CacheWithBase(img) == [InitCache EXCEPT !.base_img = img, !.base_path = img.file]

\* "Resize the base image to fit the canvas" on a w x h base and a cw x ch
\* canvas: the size of the resized base, or <<>> when the resize raises.
CalcFit ==
    /\ calc.op = "fit" /\ ~calc.done
    /\ LET a == calc.args
           r == ResizeBase(CacheWithBase(Raster("base", a[1], a[2], "RGB", 255)),
                           <<a[3], a[4]>>)
       IN calc' = [calc EXCEPT !.done = TRUE,
                     !.out = IF r.ok THEN <<r.cache.resized_base.width,
                                            r.cache.resized_base.height>>
                             ELSE <<>>]
    /\ UNCHANGED <<params, canvas, cache, current_composite, preview, after_queue,
                   timer, stack, files, message, last, pass_key, made, kept, burst, twin>>

\* "Calculate scaled position": x_pos and y_pos for offsets (x, y) on a
\* w x h base resized for a cw x ch canvas.
CalcPlace ==
    /\ calc.op = "place" /\ ~calc.done
    /\ LET a == calc.args
           r == ResizeBase(CacheWithBase(Raster("base", a[3], a[4], "RGB", 255)),
                           <<a[5], a[6]>>)
           rb == r.cache.resized_base
       IN calc' = [calc EXCEPT !.done = TRUE,
                     !.out = <<Position(a[1], rb.width, a[3]),
                               Position(a[2], rb.height, a[4]),
                               rb.width, rb.height>>]
    /\ UNCHANGED <<params, canvas, cache, current_composite, preview, after_queue,
                   timer, stack, files, message, last, pass_key, made, kept, burst, twin>>

\* "Convert to RGBA and apply opacity" on a reference raster of uniform
\* alpha: the alpha of the resized reference.
CalcOpacity ==
    /\ calc.op = "opacity" /\ ~calc.done
    /\ LET a == calc.args
           c == [InitCache EXCEPT !.reference_img = Raster("ref", 4, 4, a[1], a[2]),
                                  !.reference_path = "ref"]
           r == ResizeReference(c, <<DefaultCanvas, DefaultCanvas>>,
                                <<DefaultScale, DefaultScale>>, a[3])
       IN calc' = [calc EXCEPT !.done = TRUE,
                     !.out = <<r.cache.resized_reference.alpha>>]
    /\ UNCHANGED <<params, canvas, cache, current_composite, preview, after_queue,
                   timer, stack, files, message, last, pass_key, made, kept, burst, twin>>

\* The composite block on base a.png and a 400x400 canvas with offsets
\* (x, y), scale (sx, sy) and graphic g: the composite and the resized base it
\* was made from, or <<>> when the block raises.
CalcPaste ==
    /\ calc.op = "paste" /\ ~calc.done
    /\ LET a == calc.args
           p == [InitParams EXCEPT !.base_path = "a.png", !.graphic_path = a[5],
                                   !.x_coord = a[1], !.y_coord = a[2],
                                   !.scale_x = a[3], !.scale_y = a[4]]
           r == CompositeSection(p, InitCache, <<DefaultCanvas, DefaultCanvas>>)
       IN calc' = [calc EXCEPT !.done = TRUE,
                     !.out = IF r.ok THEN <<r.composite, r.cache.resized_base>>
                             ELSE <<>>]
    /\ UNCHANGED <<params, canvas, cache, current_composite, preview, after_queue,
                   timer, stack, files, message, last, pass_key, made, kept, burst, twin>>

NextCalc == CalcFit \/ CalcPlace \/ CalcOpacity \/ CalcPaste

SpecCalc == InitCalc /\ [][NextCalc]_vars

\* ------------------------------------------------------------------ claims
\* The parameter record a key stands for (the fields the composite reads).
KeyParams(key) ==
    [base_path |-> key.base_path, graphic_path |-> key.graphic_path,
     x_coord |-> key.x_coord, y_coord |-> key.y_coord,
     scale_x |-> key.scale[1], scale_y |-> key.scale[2]]

\* The composite a render with an empty cache computes from a key.
FromScratch(key) == CompositeSection(KeyParams(key), InitCache, key.cs).composite

\* C1: the composite stored by the most recent successful render equals the
\* composite a cache-free render computes from the parameters and canvas
\* size of that render.
C1_CachedEqualsFromScratch ==
    pass_key # NoKey => current_composite = FromScratch(pass_key)

\* C2: when the base path has changed to another image since the previous
\* successful pass and this pass succeeds with the same canvas size, the
\* resized base in the composite is the resize of the newly decoded base.
C2_NewBaseUsed ==
    (last.status = "ok" /\ last.rebased) =>
        /\ current_composite.base.src = params.base_path
        /\ current_composite.base = FromScratch(pass_key).base

\* C3: after a successful render the cached resized graphic was made from
\* the inputs of that render (graphic raster, base ratio, scale X, scale Y):
\* a resized graphic cached under other inputs was recomputed, not reused.
C3_GraphicRecomputed ==
    last.status = "ok" =>
        /\ made.graphic = cache.graphic_img.file
        /\ SameRatio(made.ratio, BaseRatio(pass_key.cs, cache.base_img))
        /\ made.scale = <<params.scale_x, params.scale_y>>

\* C4 as stated: a successful pass that follows a successful pass with the
\* same base path, graphic path, canvas size and scale pair decodes nothing,
\* resizes nothing and yields the same composite.
C4_RepeatSameComposite ==
    (last.status = "ok" /\ last.repeat # "no") => (last.ops = {} /\ last.same)

\* C4 amended: such a pass decodes nothing and resizes nothing, and yields
\* the same composite when the offsets are identical too.
C4_RepeatNoWork ==
    (last.status = "ok" /\ last.repeat # "no") =>
        /\ last.ops = {}
        /\ last.repeat = "all" => last.same

C4_Witness ==
    /\ last.status = "ok" /\ last.repeat = "all" /\ last.ops = {} /\ last.same
    /\ current_composite # None

\* The decoded raster cached for a layer is absent or the decode of the
\* path cached beside it.
LayerConsistent(imgKey, pathKey) ==
    cache[imgKey] = None \/ cache[imgKey] = Image_open(cache[pathKey])

\* A step in which the composite try block raised.
CompositeFailStep ==
    /\ Len(stack') = Len(stack) + 1
    /\ stack'[Len(stack')].pc = "composite_error"

\* A step in which the reference try block raised.
ReferenceFailStep ==
    /\ stack' # stack /\ stack' # <<>>
    /\ stack'[Len(stack')].pc = "reference_error"
    /\ Len(stack') >= Len(stack)

\* A pass whose decode of a layer fails leaves that layer's pair as it was.
DecodeFailureKeepsPair ==
    /\ (CompositeFailStep /\ Image_open(params.base_path) = None) =>
          (cache'.base_img = cache.base_img /\ cache'.base_path = cache.base_path)
    /\ (CompositeFailStep /\ Image_open(params.base_path) # None
          /\ Image_open(params.graphic_path) = None) =>
          (cache'.graphic_img = cache.graphic_img
           /\ cache'.graphic_path = cache.graphic_path)
    /\ (ReferenceFailStep /\ Image_open(params.reference_path) = None) =>
          (cache'.reference_img = cache.reference_img
           /\ cache'.reference_path = cache.reference_path)

\* C5: in every reachable state each layer's cached raster is absent or the
\* decode of exactly that layer's cached path, and a decode failure leaves
\* the previous path/raster pair in place.
C5_PathRasterPaired ==
    /\ [](/\ LayerConsistent("base_img", "base_path")
          /\ LayerConsistent("graphic_img", "graphic_path")
          /\ LayerConsistent("reference_img", "reference_path"))
    /\ [][DecodeFailureKeepsPair]_vars

C5_Witness ==
    /\ stack # <<>> /\ stack[Len(stack)].pc = "reference_error"
    /\ cache.base_path = "a.png" /\ params.base_path = "missing.png"
    /\ cache.reference_path = "r.png" /\ params.reference_path = "missing.png"
    /\ cache.base_img # None /\ cache.reference_img # None


\* C6: two runs that receive the same events and differ only in their
\* reference parameters export identical bitmaps from export_image and from
\* save_as.
C6_ExportIgnoresReference ==
    /\ files.export = twin.files.export
    /\ files.save_as = twin.files.save_as

C6_Witness ==
    /\ files.export # None /\ files.save_as # None
    /\ preview.reference # None
    /\ params.reference_path = "r.png" /\ params.show_reference
    /\ ~twin.params.show_reference
    /\ params.reference_opacity # twin.params.reference_opacity
    /\ cache.resized_reference # twin.cache.resized_reference

\* C7: while no render has ever succeeded, every export_image or save_as
\* call ends in the empty-composite error and no file is written, whatever
\* the path parameters are.
C7_ExportBeforeRender ==
    current_composite = None =>
        /\ files.export = None /\ files.save_as = None
        /\ message \in {"none", "export_image: no image", "save_as: no image"}

C7_Witness ==
    /\ current_composite = None
    /\ message = "save_as: no image"
    /\ params.base_path = "a.png" /\ params.graphic_path = "g.png"
    /\ files.export = None /\ files.save_as = None

\* C8 amended: in a burst of parameter writes, each less than the quiet
\* window after the one before, no render is triggered while the debounce
\* timer waits (so none by an intermediate write), and once the timer has run
\* exactly one render has been triggered, a full quiet window after the last
\* write; the timer leaves the queue unrun only by a later write's cancel.
C8_BurstOneRender ==
    burst.writes >= 1 =>
        \/ DebouncePending /\ burst.renders = 0
        \/ ~DebouncePending /\ burst.renders = 1 /\ burst.elapsed >= DebounceMs

\* C8 as stated: every burst triggers exactly one render, after its last
\* write; no burst is over with none.
C8_EveryBurstRenders ==
    /\ ~burst.unrendered
    /\ burst.writes >= 1 =>
          \/ DebouncePending /\ burst.renders = 0
          \/ ~DebouncePending /\ burst.renders = 1

C8_Witness ==
    /\ burst.writes = 2 /\ burst.renders = 1
    /\ ~DebouncePending
    /\ last.status = "ok"

\* The callbacks waiting in the timer queue that will run a render pass.
PendingRenders == after_queue
PendingDebounced == {t \in after_queue : t.fn = "call_function"}

\* C9 as stated: at most one render request is pending, counting the
\* debounced requests and the start-up render.
C9_OnePendingRender == Cardinality(PendingRenders) <= 1

\* C9 amended: at most one debounced render request is pending, the one the
\* last write scheduled; the start-up render waits on a timer of its own.
C9_OnePendingDebounced ==
    /\ Cardinality(PendingDebounced) <= 1
    /\ \A t \in PendingDebounced : t.id = timer
    /\ Cardinality(PendingRenders \ PendingDebounced) <= 1

C9_Witness ==
    /\ burst.writes = 2
    /\ Cardinality(PendingDebounced) = 1
    /\ Cardinality(PendingRenders) = 2

\* C10: no render pass begins while another render pass is in flight, a
\* pass waiting in its error message box included.
C10_RendersNeverOverlap == ~last.overlap

\* A step in which the composite try block raised on a failing decode of the
\* base or the graphic file.
DecodeFailStep ==
    /\ CompositeFailStep
    /\ \/ Image_open(params.base_path) = None
       \/ Image_open(params.graphic_path) = None

\* Every derived raster in cache c was made from the decoded raster cached
\* for its layer.
DerivedFromCached(c) ==
    /\ c.resized_base = None
          \/ (c.base_img # None /\ c.resized_base.src = c.base_img.file)
    /\ c.resized_graphic = None
          \/ (c.graphic_img # None /\ c.resized_graphic.src = c.graphic_img.file)
    /\ c.resized_reference = None
          \/ (c.reference_img # None /\ c.resized_reference.src = c.reference_img.file)

\* C11: a render pass whose composite block fails on a decode error leaves
\* every cache entry and the stored composite as they were, and the derived
\* rasters that matched their layer's decoded raster before still match it.
C11_DecodeFailureNoOp ==
    [][DecodeFailStep =>
          /\ cache' = cache
          /\ current_composite' = current_composite
          /\ DerivedFromCached(cache) => DerivedFromCached(cache')]_vars

\* A render pass has run on the current parameters, of which the base path
\* or the graphic path is empty.
EmptyPathPass ==
    /\ last.status # "none"
    /\ params.base_path = "" \/ params.graphic_path = ""

\* The reference try block fails on the current parameters.
ReferenceDecodeFails ==
    /\ params.reference_path # "" /\ params.show_reference
    /\ Image_open(params.reference_path) = None

\* C12 as stated: a render pass with an empty base or graphic path draws no
\* composite, decodes and resizes nothing of base or graphic, and no error
\* is reported.
C12_EmptyPathSilent ==
    EmptyPathPass =>
        /\ preview.composite = None
        /\ last.ops = {}
        /\ stack = <<>>

\* C12 amended: such a pass draws no composite, decodes and resizes nothing
\* of base or graphic and reports no error of the composite; the only error
\* it can report is the reference layer's, when the reference file cannot
\* be decoded.
C12_EmptyPathNoComposite ==
    EmptyPathPass =>
        /\ last.status = "empty"
        /\ preview.composite = None
        /\ last.ops = {}
        /\ \A i \in 1..Len(stack) : stack[i].pc = "reference_error"
        /\ stack # <<>> => ReferenceDecodeFails

C12_Witness ==
    /\ EmptyPathPass
    /\ params.base_path = "a.png" /\ params.graphic_path = ""
    /\ cache.base_img # None /\ cache.resized_base # None
    /\ preview.composite = None /\ preview.reference # None
    /\ stack = <<>>

Abs(n) == IF n >= 0 THEN n ELSE -n

\* C13: the resized base of a w x h image for a cw x ch canvas is no wider
\* and no higher than the canvas, has its width equal to the canvas width or
\* its height equal to the canvas height, and keeps the ratio w/h up to the
\* rounding of each side by less than one pixel.
C13_FitTouchesCanvas ==
    (calc.op = "fit" /\ calc.done /\ calc.out # <<>>) =>
        LET w == calc.args[1]
            h == calc.args[2]
            cw == calc.args[3]
            ch == calc.args[4]
            rw == calc.out[1]
            rh == calc.out[2]
        IN /\ rw <= cw /\ rh <= ch
           /\ rw = cw \/ rh = ch
           /\ Abs(rw * h - rh * w) <= (IF w >= h THEN w ELSE h)

\* v is an integer nearest to the quotient n / d (d > 0), whichever way a
\* tie is broken.
Nearest(v, n, d) == 2 * Abs(v * d - n) <= d

\* C14: the position deltas are the offsets times resized side over original
\* side, rounded to the nearest integer, for positive and negative offsets.
C14_PositionNearest ==
    (calc.op = "place" /\ calc.done) =>
        LET x_coord == calc.args[1]
            y_coord == calc.args[2]
            base_width == calc.args[3]
            base_height == calc.args[4]
            resized_width == calc.out[3]
            resized_height == calc.out[4]
        IN /\ Nearest(calc.out[1], x_coord * resized_width, base_width)
           /\ Nearest(calc.out[2], y_coord * resized_height, base_height)

\* C15: a reference of uniform alpha A resized under opacity p has alpha
\* round(A * p / 100) in every pixel.
C15_OpacityNearest ==
    (calc.op = "opacity" /\ calc.done) =>
        Nearest(calc.out[1], SourceAlpha([mode |-> calc.args[1], alpha |-> calc.args[2]])
                                * calc.args[3], 100)

\* C16: opacity 0 gives alpha 0 and opacity 100 gives the reference's own
\* alpha A, for every A in 0..255; a reference without an alpha channel
\* counts as A = 255.
C16_OpacityEndpoints ==
    (calc.op = "opacity" /\ calc.done) =>
        LET A == IF calc.args[1] = "RGBA" THEN calc.args[2] ELSE 255
            p == calc.args[3]
        IN /\ p = 0 => calc.out[1] = 0
           /\ p = 100 => calc.out[1] = A

C16_Witness ==
    /\ calc.op = "opacity" /\ calc.done
    /\ calc.args = <<"RGBA", 137, 100>> /\ calc.out = <<137>>

\* A step of export_image, or of save_as after its file dialog, that ends
\* with the given message.
ExportStep(msg) ==
    /\ message' = msg
    /\ \/ UNCHANGED stack
       \/ stack # <<>> /\ stack[Len(stack)].pc = "save_dialog" /\ stack' = <<>>
    /\ UNCHANGED <<params, canvas, cache, current_composite, preview,
                   after_queue, timer, last, pass_key, made, kept, burst>>

\* Bitmap b is what the claim prescribes for the current composite and
\* background toggle.
Exported(b) ==
    LET w == current_composite.width
        h == current_composite.height
    IN IF params.apply_background
       THEN /\ b.kind = "padded"
            /\ b.width = w + 2 * (w \div 10)
            /\ b.height = h + 2 * (h \div 10)
            /\ b.at = <<w \div 10, h \div 10>>
            /\ b.inner = current_composite
            /\ b.fill = "#b4b4b4"
       ELSE b = current_composite

\* C17: with the background toggle on, the exported bitmap of a w x h
\* composite has size (w + 2*floor(w/10), h + 2*floor(h/10)), holds the
\* composite at (floor(w/10), floor(h/10)) and is gray #b4b4b4 around it;
\* with the toggle off it is the composite itself; export_image and save_as
\* write the same bitmap from the same state.
C17_ExportPadding ==
    [][/\ ExportStep("export_image: success") => Exported(files'.export)
       /\ ExportStep("save_as: success") => Exported(files'.save_as)]_vars

C17_Witness ==
    /\ message = "save_as: success" /\ params.apply_background
    /\ files.export # None /\ files.export.kind = "padded"
    /\ files.export.inner = current_composite
    /\ current_composite.width = 533 /\ files.export.width = 639
    /\ files.export.at = <<53, 40>>
    /\ files.save_as = files.export

\* End-to-end scenario 1: base 800x600, opaque graphic 200x200, offset
\* (0,0), scale (100,100), canvas 400x400.
Scenario1 ==
    [base_path |-> "a.png", graphic_path |-> "g.png", x_coord |-> 0, y_coord |-> 0,
     scale |-> <<100, 100>>, cs |-> <<400, 400>>]

\* Scenario 1 with scale X set to 200.
Scenario2 == [Scenario1 EXCEPT !.scale = <<200, 100>>]

\* C18: a render of scenario 1 that resizes base and graphic, as the first
\* render does, yields a 400x300 composite, a 100x100 resized graphic and
\* paste position (150,100): the graphic is centred at (200,150).
C18_ScenarioOne ==
    (/\ last.status = "ok" /\ pass_key = Scenario1
     /\ {"resize_base", "resize_graphic"} \subseteq last.ops) =>
        /\ current_composite.width = 400 /\ current_composite.height = 300
        /\ current_composite.graphic.width = 100
        /\ current_composite.graphic.height = 100
        /\ current_composite.at = <<150, 100>>
        /\ current_composite.at[1] + (current_composite.graphic.width \div 2) = 200
        /\ current_composite.at[2] + (current_composite.graphic.height \div 2) = 150

C18_Witness ==
    /\ last.status = "ok" /\ pass_key = Scenario1
    /\ last.ops = {"decode_base", "decode_graphic", "resize_base", "resize_graphic"}
    /\ current_composite.at = <<150, 100>>
    /\ current_composite.base.src = "a.png"
    /\ current_composite.graphic.src = "g.png"

\* C19: from the rendered state of scenario 1 (its decoded images and its
\* resized base in the cache), a render with scale X at 200 resizes the
\* graphic alone, to 200x100, and pastes it 50 pixels further left than
\* scenario 1 does, at the same height.
C19_ScenarioTwo ==
    (/\ last.status = "ok" /\ pass_key = Scenario2
     /\ last.ops = {"resize_graphic"}
     /\ current_composite.base = FromScratch(Scenario1).base) =>
        /\ current_composite.graphic.width = 200
        /\ current_composite.graphic.height = 100
        /\ current_composite.at[1] = FromScratch(Scenario1).at[1] - 50
        /\ current_composite.at[2] = FromScratch(Scenario1).at[2]

C19_Witness ==
    /\ last.status = "ok" /\ pass_key = Scenario2
    /\ last.ops = {"resize_graphic"}
    /\ current_composite.base = FromScratch(Scenario1).base
    /\ current_composite.graphic.src = "g.png"
    /\ current_composite.at = <<100, 100>>

\* The overlay a cache-free resize makes of the decoded reference image img
\* for parameters p and canvas size cs.
FreshReference(p, img, cs) ==
    ResizeReference([InitCache EXCEPT !.reference_img = img], cs,
                    <<p.reference_scale_x, p.reference_scale_y>>,
                    p.reference_opacity).cache.resized_reference

\* C20: the reference overlay a render pass has drawn is the resize of the
\* currently decoded reference image for the current canvas size, reference
\* scale pair and opacity.
C20_ReferenceFresh ==
    (/\ last.status \in {"ok", "empty"} /\ ~last.overlap
     /\ stack = <<>> /\ preview.reference # None) =>
        preview.reference.image =
            FreshReference(params, cache.reference_img, EffectiveCanvas(canvas))

\* A derived raster is absent or the plain output of a resize.
PlainResize(img) == img = None \/ img.kind = "resized"

\* C21: the cached resized base and resized graphic are never changed by the
\* paste: they are plain resize outputs in every state, and their values
\* change only in a pass that resizes them anew.
C21_DerivedNotMutated ==
    /\ [](PlainResize(cache.resized_base) /\ PlainResize(cache.resized_graphic))
    /\ [][/\ (cache'.resized_base # cache.resized_base
                  => "resize_base" \in last'.ops)
           /\ (cache'.resized_graphic # cache.resized_graphic
                  => "resize_graphic" \in last'.ops)]_vars

C21_Witness ==
    /\ last.status = "ok" /\ last.repeat = "inputs" /\ last.ops = {}
    /\ params.x_coord = -150
    /\ current_composite.base = cache.resized_base
    /\ current_composite.graphic = cache.resized_graphic
    /\ cache.resized_base = Resize(cache.base_img, 400, 300)

\* The rectangle a composite's graphic was pasted at lies wholly outside the
\* composite's buffer.
PastedOutside(comp) ==
    \/ comp.at[1] >= comp.width \/ comp.at[1] + comp.graphic.width <= 0
    \/ comp.at[2] >= comp.height \/ comp.at[2] + comp.graphic.height <= 0

\* int(v * 0.5): half of v, rounded toward zero.
HalfTowardZero(v) == IF v >= 0 THEN v \div 2 ELSE -((-v) \div 2)

\* The part <<x0, y0, x1, y1>> of the buffer the pasted graphic covers: the
\* rectangle at comp.at of the graphic's size, cut at the buffer's edges
\* (x1 <= x0 or y1 <= y0 when nothing of it is inside).
Covered(comp) ==
    << IF comp.at[1] < 0 THEN 0 ELSE comp.at[1],
       IF comp.at[2] < 0 THEN 0 ELSE comp.at[2],
       Min(comp.width, comp.at[1] + comp.graphic.width),
       Min(comp.height, comp.at[2] + comp.graphic.height) >>

\* The rectangle <<x0, y0, x1, y1>> the graphic of scale (sx, sy) centred on
\* the reprojected offset (x, y) occupies on the 400x300 resized a.png: the
\* fit ratio is 0.5, the centre (200, 150).
OffsetRectangle(x, y, gw, gh) ==
    LET x0 == 200 + HalfTowardZero(x) - (gw \div 2)
        y0 == 150 + HalfTowardZero(y) - (gh \div 2)
    IN <<x0, y0, x0 + gw, y0 + gh>>

\* C22: for offsets over [-1000, 1000] and scales over [10, 500] the composite
\* block raises no error; the composite has exactly the dimensions of the
\* resized base and is built on it; the graphic is pasted at the rectangle
\* centred on the reprojected offset, neither moved nor resized to fit, so
\* the part of the buffer it covers lies inside that rectangle and every
\* pixel outside the rectangle is the resized base's, also when the
\* rectangle lies partly or wholly outside the buffer.
C22_PasteKeepsBuffer ==
    (calc.op = "paste" /\ calc.done) =>
        /\ calc.out # <<>>
        /\ LET comp == calc.out[1]
               rect == OffsetRectangle(calc.args[1], calc.args[2],
                                       comp.graphic.width, comp.graphic.height)
               part == Covered(comp)
           IN /\ comp.width = calc.out[2].width
              /\ comp.height = calc.out[2].height
              /\ comp.base = calc.out[2]
              /\ calc.out[2] = Resize(DiskImage("a.png"), 400, 300)
              /\ comp.graphic.src = calc.args[5]
              /\ comp.graphic.width =
                    ((DiskImage(calc.args[5]).width \div 2) * calc.args[3]) \div 100
              /\ comp.graphic.height =
                    ((DiskImage(calc.args[5]).height \div 2) * calc.args[4]) \div 100
              /\ comp.at = <<rect[1], rect[2]>>
              /\ part[1] >= rect[1] /\ part[2] >= rect[2]
              /\ part[3] <= rect[3] /\ part[4] <= rect[4]
              /\ part[1] >= 0 /\ part[2] >= 0
              /\ part[3] <= comp.width /\ part[4] <= comp.height

C22_Witness ==
    /\ calc.op = "paste" /\ calc.done /\ calc.out # <<>>
    /\ calc.args[1] = 1000 /\ calc.args[3] = 500
    /\ PastedOutside(calc.out[1])
    /\ calc.out[1].at[1] = 450
    /\ calc.out[1].width = 400 /\ calc.out[1].height = 300

\* Bitmap b holds the stored composite, bare or inside the gray border.
Serialized(b) ==
    \/ b = current_composite
    \/ b.kind = "padded" /\ b.inner = current_composite

\* C23: the stored composite changes only in a render pass that succeeds,
\* which stores the composite it built; a pass that fails or finds an empty
\* path leaves it as it was; export_image and save_as write the stored
\* composite and change neither it nor the cache nor the parameters.
C23_ExportsLastSuccess ==
    [][/\ (current_composite' # current_composite => last'.status = "ok")
       /\ (last'.status = "ok" =>
              current_composite' =
                CompositeSection(params', cache, EffectiveCanvas(canvas')).composite)
       /\ (last'.status \in {"error", "empty"} =>
              current_composite' = current_composite)
       /\ (message' # message \/ files' # files =>
              UNCHANGED <<params, cache, current_composite>>)
       /\ (ExportStep("export_image: success") => Serialized(files'.export))
       /\ (ExportStep("save_as: success") => Serialized(files'.save_as))]_vars

C23_Witness ==
    /\ kept = {"error", "empty"}
    /\ last.status = "empty" /\ stack = <<>>
    /\ params.base_path = "missing.png" /\ params.graphic_path = ""
    /\ message = "export_image: success"
    /\ current_composite # None /\ current_composite.base.src = "a.png"
    /\ files.export = current_composite /\ files.save_as = None

\* The last pass ran after the last write and read the current parameters:
\* no debounced call waits, and a composite it stored was built from the
\* current values, its graphic placed at the current offset.
RenderedCurrent ==
    /\ ~DebouncePending
    /\ last.status # "none"
    /\ last.status = "ok" =>
          /\ pass_key = Key(params, EffectiveCanvas(canvas))
          /\ current_composite.at[1] =
                (current_composite.width \div 2)
                  + Position(params.x_coord, current_composite.width,
                             cache.base_img.width)
                  - (current_composite.graphic.width \div 2)

\* C24: with the event loop running its timers, either parameter writes go
\* on forever or from some point on a render pass has run after the last
\* write and has read the parameter values of that write.
C24_RenderAfterLastWrite ==
    ([]<><<FairWrite>>_vars) \/ (<>[]RenderedCurrent)

C24_Witness ==
    /\ RenderedCurrent /\ last.status = "ok"
    /\ burst.writes = 2 /\ burst.renders = 1
    /\ params.x_coord = -150 /\ params.graphic_path = "h.png"
    /\ current_composite.graphic.src = "h.png"
    /\ current_composite.at[1] = 200 - 75 - 75

\* The cached resized base is the fit of its source image into the stored
\* last_canvas_size.
KeyedBase(c) ==
    c.resized_base = None \/
      LET img == DiskImage(c.resized_base.src)
          cs == c.last_canvas_size
      IN c.resized_base =
           Resize(img, ScaleByRatio(img.width, cs, img.width, img.height),
                  ScaleByRatio(img.height, cs, img.width, img.height))

\* The cached resized graphic was resized with the stored last_scale: the
\* scale recorded when it was made is the stored one, and its size is the
\* fitted size of its source multiplied by that scale.
KeyedGraphic(c) ==
    c.resized_graphic = None \/
      LET img == DiskImage(c.resized_graphic.src)
          w1 == IntOfProduct(img.width, made.ratio[1], made.ratio[2])
          h1 == IntOfProduct(img.height, made.ratio[1], made.ratio[2])
      IN /\ made.scale = c.last_scale
         /\ made.graphic = c.resized_graphic.src
         /\ c.resized_graphic.width = IntOfProduct(w1, c.last_scale[1], 100)
         /\ c.resized_graphic.height = IntOfProduct(h1, c.last_scale[2], 100)

\* The cached resized reference carries the stored last_opacity and has the
\* size its source gets, for some canvas, under the stored last_ref_scale.
KeyedReference(c) ==
    c.resized_reference = None \/
      LET img == DiskImage(c.resized_reference.src)
          rs == c.last_ref_scale
      IN /\ c.resized_reference.opacity = c.last_opacity
         /\ c.resized_reference.alpha = Opacity(SourceAlpha(img), c.last_opacity)
         /\ \E cs \in CanvasSizes :
              /\ c.resized_reference.width =
                    IntOfProduct(ScaleByRatio(img.width, cs, img.width, img.height),
                                 rs[1], 100)
              /\ c.resized_reference.height =
                    IntOfProduct(ScaleByRatio(img.height, cs, img.width, img.height),
                                 rs[2], 100)

\* A pass whose composite block raised in a resize: both files decode.
ResizeFailStep ==
    /\ CompositeFailStep
    /\ Image_open(params.base_path) # None /\ Image_open(params.graphic_path) # None

\* C25: in every reachable state each non-empty derived raster was produced
\* with the key stored beside it (resized base with last_canvas_size, resized
\* graphic with last_scale, resized reference with last_ref_scale and
\* last_opacity), and a pass in which a resize raises leaves that raster and
\* its key as they were.
C25_DerivedKeyed ==
    /\ [](KeyedBase(cache) /\ KeyedGraphic(cache) /\ KeyedReference(cache))
    /\ [][/\ (ResizeFailStep /\ "resize_base" \notin last'.ops =>
                 /\ cache'.resized_base = cache.resized_base
                 /\ cache'.last_canvas_size = cache.last_canvas_size)
           /\ (ResizeFailStep =>
                 /\ cache'.resized_graphic = cache.resized_graphic
                 /\ cache'.last_scale = cache.last_scale)
           /\ (ReferenceFailStep /\ Image_open(params.reference_path) # None =>
                 /\ cache'.resized_reference = cache.resized_reference
                 /\ cache'.last_ref_scale = cache.last_ref_scale
                 /\ cache'.last_opacity = cache.last_opacity)]_vars

C25_Witness ==
    /\ last.status = "error" /\ params.base_path = "w.png"
    /\ cache.base_img = DiskImage("w.png")
    /\ cache.resized_base = Resize(DiskImage("a.png"), 533, 400)
    /\ cache.last_canvas_size = <<600, 400>>
    /\ canvas = <<400, 400>>
    /\ cache.resized_graphic # None /\ cache.last_scale = <<200, 100>>
    /\ cache.resized_reference # None /\ cache.last_opacity = 100

====
